---- MODULE Spec2Model ----
(***************************************************************************)
(* Word Heist backend (src/app.py): the puzzle generator, the daily-puzzle *)
(* handler, the word validator, the hint dispenser and the score/streak    *)
(* reconciler, over a relational store.                                    *)
(*                                                                         *)
(* A request is served by a thread (a slot).  Every query of a handler     *)
(* reads the committed store at the moment it runs, every change is kept   *)
(* in the request's session and reaches the store at db.session.commit().  *)
(* An exception ends the request with a generic 500 fault and the session  *)
(* is discarded.                                                           *)
(***************************************************************************)
EXTENDS Integers, Sequences, FiniteSets, TLC

VARIABLES
    today,      \* datetime.now().date().toordinal()
    rng,        \* state of the module-level generator of `random`
    users,      \* table User
    puzzles,    \* table Puzzle, a row's id is its position
    progress,   \* table UserProgress
    scores,     \* table Score, a row's id is its position
    pc,         \* per slot: the position of its request in the handler
    req,        \* per slot: the request's arguments and session objects
    resp,       \* per slot: the response of its last finished request
    obs         \* what an observer of the calls of slot 1 has noted

vars == <<today, rng, users, puzzles, progress, scores, pc, req, resp, obs>>

(***************************************************************************)
(* Bounds                                                                  *)
(***************************************************************************)
NumUsers == 1
NumSlots == 2
MaxDays == 6
MaxPuzzles == 2
MaxHintsUsed == 4
MaxProgress == 1
MaxScores == 3

\* the day the store is set up, as an ordinal: 2025-01-02
FirstDay == 739253

Users == 1..NumUsers
Slots == 1..NumSlots
Days == FirstDay..(FirstDay + MaxDays - 1)
PuzzleDates == FirstDay..(FirstDay + MaxPuzzles - 1)
PuzzleIds == 1..(MaxPuzzles + 1)

(***************************************************************************)
(* Python values                                                           *)
(***************************************************************************)
None == <<>>
Some(v) == <<v>>
IsNone(x) == x = None
ValueOf(x) == x[1]

Range(f) == {f[i] : i \in DOMAIN f}
Contains(seq, x) == \E i \in DOMAIN seq : seq[i] = x

\* str.upper() on the words a request can carry
RawWords == {"", "it", "rice", "CRIMES", "SET"}
upper(w) ==
    CASE w = "it" -> "IT"
      [] w = "rice" -> "RICE"
      [] OTHER -> w

(***************************************************************************)
(* json.dumps / json.loads on the texts the columns hold.  A text is the   *)
(* sequence of its tokens.                                                 *)
(***************************************************************************)
RECURSIVE JoinItems(_)
JoinItems(items) ==
    IF Len(items) = 0 THEN <<>>
    ELSE IF Len(items) = 1 THEN <<items[1]>>
    ELSE <<items[1], ",">> \o JoinItems(Tail(items))

json_dumps_list(items) == <<"[">> \o JoinItems(items) \o <<"]">>

LengthKeys == <<"3", "4", "5", "6">>

RECURSIVE JoinEntries(_, _)
JoinEntries(d, keys) ==
    IF Len(keys) = 0 THEN <<>>
    ELSE <<keys[1], ":">> \o json_dumps_list(d[keys[1]])
         \o (IF Len(keys) = 1 THEN <<>> ELSE <<",">>)
         \o JoinEntries(d, Tail(keys))

json_dumps_dict(d) == <<"{">> \o JoinEntries(d, LengthKeys) \o <<"}">>

\* a value computed once
Once(v) == CHOOSE x \in {v} : TRUE

\* the items of the list text that opens at token i of text
ListItemsFrom(text, i) ==
    LET closes == {j \in (i + 1)..Len(text) : text[j] = "]"}
        close == CHOOSE j \in closes : \A k \in closes : j <= k
    IN SelectSeq(SubSeq(text, i + 1, close - 1), LAMBDA t : t # ",")

json_loads_list(text) == ListItemsFrom(text, 1)

\* json.loads(text).get(key, []) of a dict text
dict_get(text, key) ==
    LET at == {i \in 1..(Len(text) - 1) : text[i] = key /\ text[i + 1] = ":"}
    IN IF at = {} THEN <<>>
       ELSE ListItemsFrom(text, (CHOOSE i \in at : TRUE) + 2)

(***************************************************************************)
(* Puzzle generator                                                        *)
(***************************************************************************)
PUZZLE_TEMPLATES == <<
    [letters |-> <<"C", "R", "I", "M", "E", "S">>,
     mystery |-> "CRIMES",
     theme |-> "Mystery",
     valid_words |-> [k \in {"3", "4", "5", "6"} |->
        CASE k = "3" -> <<"ICE", "SIR", "RIM", "IRE", "SEC">>
          [] k = "4" -> <<"RICE", "MICE", "CRIS", "RIME", "SEMI", "ICES", "SIRE">>
          [] k = "5" -> <<"CRIME", "CRIES", "RICES", "MISER", "CIRES">>
          [] k = "6" -> <<"CRIMES">>]],
    [letters |-> <<"T", "H", "I", "E", "F", "S">>,
     mystery |-> "THIEFS",
     theme |-> "Heist",
     valid_words |-> [k \in {"3", "4", "5", "6"} |->
        CASE k = "3" -> <<"THE", "HIT", "FIT", "SIT", "TIE", "HIS", "ITS">>
          [] k = "4" -> <<"THIS", "HITS", "FIST", "TIES", "SITE", "HEFT">>
          [] k = "5" -> <<"THIEF", "SHIFT", "HEFTS", "HEIST">>
          [] k = "6" -> <<"THIEFS">>]],
    [letters |-> <<"S", "T", "O", "L", "E", "N">>,
     mystery |-> "STOLEN",
     theme |-> "Theft",
     valid_words |-> [k \in {"3", "4", "5", "6"} |->
        CASE k = "3" -> <<"SET", "LET", "NET", "TEN", "ONE", "NOT", "SON", "TON", "LOT">>
          [] k = "4" -> <<"NEST", "SENT", "LETS", "NETS", "TENS", "TONE", "LOST", "LOTS", "SLOT">>
          [] k = "5" -> <<"STONE", "NOTES", "STOLE", "TONES">>
          [] k = "6" -> <<"STOLEN">>]]
>>

\* random.seed(n) followed by draws calls of random.choice(PUZZLE_TEMPLATES):
\* the index (from 1) of the template the last of these calls returns, as
\* CPython's generator yields it for the ordinals of 2025-01-01 and after
RandomDraws ==
    [n \in 739252..739260 |->
        CASE n = 739252 -> <<2, 1, 2, 1, 1>>
          [] n = 739253 -> <<1, 2, 3, 3, 2>>
          [] n = 739254 -> <<3, 2, 2, 2, 2>>
          [] n = 739255 -> <<1, 3, 2, 1, 3>>
          [] n = 739256 -> <<1, 1, 3, 2, 1>>
          [] n = 739257 -> <<1, 2, 3, 3, 1>>
          [] n = 739258 -> <<2, 3, 3, 2, 1>>
          [] n = 739259 -> <<2, 2, 1, 2, 1>>
          [] n = 739260 -> <<3, 2, 2, 1, 3>>]

random_seed(n) == [seed |-> n, draws |-> 0]
random_choice(g) == RandomDraws[g.seed][g.draws + 1]

\* a generator that lists the words of five letters and fewer only
PuzzleDataShortWords(date, t) ==
    [letters |-> PUZZLE_TEMPLATES[t].letters,
     mystery_word |-> PUZZLE_TEMPLATES[t].mystery,
     valid_words |-> [k \in DOMAIN PUZZLE_TEMPLATES[t].valid_words |->
                        IF k = "6" THEN <<>> ELSE PUZZLE_TEMPLATES[t].valid_words[k]],
     theme |-> PUZZLE_TEMPLATES[t].theme,
     case_number |-> (date % 1000) + 1,
     case_title |-> <<"The ", PUZZLE_TEMPLATES[t].theme, " Mystery">>]

\* the dict generate_daily_puzzle returns for the template the generator chose
PuzzleData(date, t) ==
    [letters |-> PUZZLE_TEMPLATES[t].letters,
     mystery_word |-> PUZZLE_TEMPLATES[t].mystery,
     valid_words |-> PUZZLE_TEMPLATES[t].valid_words,
     theme |-> PUZZLE_TEMPLATES[t].theme,
     case_number |-> (date % 1000) + 1,
     case_title |-> <<"The ", PUZZLE_TEMPLATES[t].theme, " Mystery">>]

\* generate_daily_puzzle run on its own, nothing between seed and choice
generate_daily_puzzle(date) == PuzzleData(date, random_choice(random_seed(date)))

(***************************************************************************)
(* The store                                                               *)
(***************************************************************************)
\* a User row as register() inserts it: the columns' defaults
NewUser ==
    [premium |-> FALSE, hints_remaining |-> 3, last_played |-> None,
     streak |-> 0, total_score |-> 0]

\* Puzzle.query.filter_by(date=d).first() and Puzzle.query.get(id), as ids
PuzzleByDate(d) == {i \in DOMAIN puzzles : puzzles[i].date = d}
PuzzleById(id) == {i \in DOMAIN puzzles : i = id}

\* UserProgress.query.filter_by(user_id=u, puzzle_id=p).first(), as ids
ProgressOf(u, p) ==
    {i \in DOMAIN progress : progress[i].user_id = u /\ progress[i].puzzle_id = p}

\* a query that never finds a Score row
ScoresOfNone(u, p) == {}

\* Score.query.filter_by(user_id=u, puzzle_id=p), as ids
ScoresOf(u, p) ==
    {i \in DOMAIN scores : scores[i].user_id = u /\ scores[i].puzzle_id = p}

\* .first(): the row of least id
First(ids) == CHOOSE i \in ids : \A j \in ids : i <= j

Idle == [op |-> "none"]
NoResponse == [status |-> "none"]

Init ==
    /\ today = FirstDay
    /\ rng = random_seed(FirstDay)   \* never read: every draw follows a seed
    /\ users = [u \in Users |-> NewUser]
    /\ puzzles = <<>>
    /\ progress = <<>>
    /\ scores = <<>>
    /\ pc = [s \in Slots |-> "idle"]
    /\ req = [s \in Slots |-> Idle]
    /\ resp = [s \in Slots |-> NoResponse]
    /\ obs = [best |-> [u \in Users |-> [p \in PuzzleIds |-> None]]]

\* a slot can take a request
Free(s) == pc[s] \in {"idle", "done"}

\* the request of slot s ends with response r
Respond(s, r) ==
    /\ pc' = [pc EXCEPT ![s] = "done"]
    /\ resp' = [resp EXCEPT ![s] = r]

\* what is left of a finished request: its arguments, the session is gone
ArgNames(op) ==
    CASE op = "get_daily_puzzle" -> {"op", "puzzle_date"}
      [] op = "validate_word" -> {"op", "user_id", "raw", "word", "puzzle_id"}
      [] op = "use_hint" -> {"op", "user_id", "puzzle_id"}
      [] op = "submit_score" -> {"op", "user_id", "puzzle_id", "score",
                                 "time_taken", "words_found"}
      [] OTHER -> {"op", "user_id"}

Args(r) == [k \in ArgNames(r.op) |-> r[k]]

\* ... after the first step of the handler / after a later step
RespondAt(s, call, r) ==
    /\ Respond(s, r)
    /\ req' = [req EXCEPT ![s] = Args(call)]

RespondLater(s, r) == RespondAt(s, req[s], r)

\* an uncaught exception: Flask answers 500, nothing of the session is kept
Fault(exc) == [status |-> "FAULT", error |-> exc]

(***************************************************************************)
(* GET /api/daily-puzzle                                                   *)
(***************************************************************************)
\* lines 308-320: the response for the Puzzle row of an id
PuzzlePayload(id, puzzle) ==
    [status |-> "OK", id |-> id, date |-> puzzle.date,
     letters |-> json_loads_list(puzzle.letters),
     theme |-> puzzle.theme, case_number |-> puzzle.case_number,
     case_title |-> puzzle.case_title, difficulty |-> puzzle.difficulty,
     mystery_length |-> Len(puzzle.mystery_word)]

\* lines 264-274: the date of the request and the query for its row
get_daily_puzzle(s, date) ==
    /\ Free(s)
    /\ req' = [req EXCEPT ![s] = [op |-> "get_daily_puzzle", puzzle_date |-> date]]
    /\ IF PuzzleByDate(date) # {}
       THEN Respond(s, PuzzlePayload(First(PuzzleByDate(date)),
                                     puzzles[First(PuzzleByDate(date))]))
       ELSE /\ pc' = [pc EXCEPT ![s] = "dp_seed"]
            /\ UNCHANGED resp
    /\ UNCHANGED <<today, rng, users, puzzles, progress, scores>>

\* line 139: random.seed(date.toordinal())
dp_seed(s) ==
    /\ pc[s] = "dp_seed"
    /\ rng' = random_seed(req[s].puzzle_date)
    /\ pc' = [pc EXCEPT ![s] = "dp_choice"]
    /\ UNCHANGED <<today, users, puzzles, progress, scores, req, resp>>

\* lines 140-149 and 277-286: random.choice, the dict, the pending Puzzle
dp_choice(s) ==
    /\ pc[s] = "dp_choice"
    /\ LET data == PuzzleData(req[s].puzzle_date, random_choice(rng))
       IN req' = [req EXCEPT ![s] = [op |-> "get_daily_puzzle",
                    puzzle_date |-> req[s].puzzle_date,
                    puzzle |-> [date |-> req[s].puzzle_date,
                                letters |-> json_dumps_list(data.letters),
                                mystery_word |-> data.mystery_word,
                                valid_words |-> json_dumps_dict(data.valid_words),
                                difficulty |-> "medium",
                                theme |-> data.theme,
                                case_number |-> data.case_number,
                                case_title |-> data.case_title]]]
    /\ rng' = [rng EXCEPT !.draws = @ + 1]
    /\ pc' = [pc EXCEPT ![s] = "dp_commit"]
    /\ UNCHANGED <<today, users, puzzles, progress, scores, resp>>

\* lines 287-320: the INSERT and the response; Puzzle.date is unique (line
\* 51), a second row of the date raises IntegrityError, which the handler
\* does not catch
dp_commit(s) ==
    /\ pc[s] = "dp_commit"
    /\ IF PuzzleByDate(req[s].puzzle_date) # {}
       THEN /\ RespondLater(s, Fault("IntegrityError"))
            /\ UNCHANGED puzzles
       ELSE /\ puzzles' = Append(puzzles, req[s].puzzle)
            /\ RespondLater(s, PuzzlePayload(Len(puzzles) + 1, req[s].puzzle))
    /\ UNCHANGED <<today, rng, users, progress, scores>>

(***************************************************************************)
(* POST /api/subscribe and the passing of days                             *)
(***************************************************************************)
\* lines 559-562
subscribe(s, u) ==
    /\ Free(s)
    /\ ~users[u].premium
    /\ users' = [users EXCEPT ![u].premium = TRUE]
    /\ req' = [req EXCEPT ![s] = [op |-> "subscribe", user_id |-> u]]
    /\ Respond(s, [status |-> "OK"])
    /\ UNCHANGED <<today, rng, puzzles, progress, scores>>

\* midnight
NextDay ==
    /\ today + 1 \in Days
    /\ today' = today + 1
    /\ UNCHANGED <<rng, users, puzzles, progress, scores, pc, req, resp>>

(***************************************************************************)
(* POST /api/validate-word                                                 *)
(***************************************************************************)
\* a UserProgress object loaded from row i
LoadProgress(i) ==
    [id |-> i,
     user_id |-> progress[i].user_id,
     puzzle_id |-> progress[i].puzzle_id,
     found_words |-> Some(progress[i].found_words),
     current_score |-> Some(progress[i].current_score),
     hints_used |-> Some(progress[i].hints_used),
     completed |-> Some(progress[i].completed)]

\* UserProgress(user_id=u, puzzle_id=p), lines 354-357 and 411-414: the
\* constructor sets the two given attributes; the defaults of lines 79-83
\* belong to the INSERT, until then the other attributes are None
NewProgress(u, p) ==
    [id |-> 0,
     user_id |-> u,
     puzzle_id |-> p,
     found_words |-> None,
     current_score |-> None,
     hints_used |-> None,
     completed |-> None]

\* the query of lines 348-351 / 405-408 and the object of lines 353-358
QueryProgress(u, p) ==
    IF ProgressOf(u, p) # {} THEN LoadProgress(First(ProgressOf(u, p)))
    ELSE NewProgress(u, p)

\* the row an INSERT of the session object writes (column defaults, 79-83)
InsertedProgress(obj) ==
    [user_id |-> obj.user_id,
     puzzle_id |-> obj.puzzle_id,
     found_words |-> IF IsNone(obj.found_words) THEN <<"[", "]">>
                     ELSE ValueOf(obj.found_words),
     current_score |-> IF IsNone(obj.current_score) THEN 0
                       ELSE ValueOf(obj.current_score),
     hints_used |-> IF IsNone(obj.hints_used) THEN 0 ELSE ValueOf(obj.hints_used),
     completed |-> IF IsNone(obj.completed) THEN FALSE ELSE ValueOf(obj.completed)]

\* a check that lets every word pass
IsAnyWord(puzzle, word) == TRUE

\* lines 338-341
IsValidWord(puzzle, word) ==
    Contains(dict_get(puzzle.valid_words, ToString(Len(word))), word)

\* an update that adds the points of the letters, never the bonus
WithWordNoBonus(obj, word, is_mystery) ==
    [obj EXCEPT
       !.found_words = Some(json_dumps_list(
                          Append(json_loads_list(ValueOf(obj.found_words)), word))),
       !.current_score = Some(ValueOf(obj.current_score) + Len(word) * 10),
       !.completed = IF is_mystery THEN Some(TRUE) ELSE @]

\* lines 360-372 on the session object: the word appended, the points added
WithWord(obj, word, is_mystery) ==
    LET found_words == Append(json_loads_list(ValueOf(obj.found_words)), word)
        base == ValueOf(obj.current_score) + Len(word) * 10
    IN [obj EXCEPT
          !.found_words = Some(json_dumps_list(found_words)),
          !.current_score = Some(IF is_mystery THEN base + 100 ELSE base),
          !.completed = IF is_mystery THEN Some(TRUE) ELSE @]

\* lines 325-372: everything up to the query for the user
validate_word(s, u, raw, puzzle_id) ==
    /\ Free(s)
    /\ LET word == upper(raw)
           call == [op |-> "validate_word", user_id |-> u, raw |-> raw,
                    word |-> word, puzzle_id |-> puzzle_id]
           obj == QueryProgress(u, puzzle_id)
           is_mystery == word = puzzles[puzzle_id].mystery_word
       IN IF word = "" \/ puzzle_id = 0
          THEN /\ RespondAt(s, call, [status |-> "InvalidInput"])
          ELSE IF PuzzleById(puzzle_id) = {}
          THEN /\ RespondAt(s, call, [status |-> "NotFound"])
          ELSE IF ~IsValidWord(puzzles[puzzle_id], word)
          THEN /\ RespondAt(s, call, [status |-> "OK", valid |-> FALSE])
          ELSE IF IsNone(obj.found_words)                     \* line 360
          THEN /\ RespondAt(s, call, Fault("TypeError"))
          ELSE IF Contains(json_loads_list(ValueOf(obj.found_words)), word)
          THEN /\ RespondAt(s, call, [status |-> "OK", valid |-> TRUE, duplicate |-> TRUE])
          ELSE IF IsNone(obj.current_score)                   \* line 368
          THEN /\ RespondAt(s, call, Fault("TypeError"))
          ELSE /\ pc' = [pc EXCEPT ![s] = "vw_user"]
               /\ req' = [req EXCEPT ![s] =
                    [op |-> "validate_word", user_id |-> u, raw |-> raw,
                     word |-> word, puzzle_id |-> puzzle_id,
                     is_mystery |-> is_mystery,
                     found_words |-> Append(json_loads_list(ValueOf(obj.found_words)), word),
                     progress |-> WithWord(obj, word, is_mystery),
                     total_score |-> 0]]
               /\ UNCHANGED resp
    /\ UNCHANGED <<today, rng, users, puzzles, progress, scores>>

\* lines 375-378: the user as the store holds him now, the points added
vw_user(s) ==
    /\ pc[s] = "vw_user"
    /\ LET gain == Len(req[s].word) * 10 + (IF req[s].is_mystery THEN 100 ELSE 0)
       IN req' = [req EXCEPT ![s].total_score = users[req[s].user_id].total_score + gain]
    /\ pc' = [pc EXCEPT ![s] = "vw_commit"]
    /\ UNCHANGED <<today, rng, users, puzzles, progress, scores, resp>>

\* the writes of a commit for a UserProgress object: the INSERT of a new
\* object (user_id x puzzle_id is unique, line 85) or the UPDATE of the
\* attributes the request changed
ProgressConflict(obj) ==
    obj.id = 0 /\ ProgressOf(obj.user_id, obj.puzzle_id) # {}

WriteProgress(obj, changed) ==
    IF obj.id = 0 THEN Append(progress, InsertedProgress(obj))
    ELSE [progress EXCEPT ![obj.id] =
            [c \in DOMAIN progress[obj.id] |->
                IF c \in changed THEN ValueOf(obj[c]) ELSE progress[obj.id][c]]]

\* lines 380-390: the commit and the response
vw_commit(s) ==
    /\ pc[s] = "vw_commit"
    /\ LET r == req[s]
           obj == r.progress
           row == IF obj.id = 0 THEN Len(progress) + 1 ELSE obj.id
       IN IF ProgressConflict(obj)
          THEN /\ RespondLater(s, Fault("IntegrityError"))
               /\ UNCHANGED <<users, progress>>
          ELSE /\ progress' = WriteProgress(obj,
                     IF r.is_mystery THEN {"found_words", "current_score", "completed"}
                     ELSE {"found_words", "current_score"})
               /\ users' = [users EXCEPT ![r.user_id].total_score = r.total_score]
               /\ RespondLater(s, [status |-> "OK", valid |-> TRUE, duplicate |-> FALSE,
                              points |-> Len(r.word) * 10,
                              is_mystery |-> r.is_mystery,
                              current_score |-> progress'[row].current_score,
                              found_words |-> r.found_words,
                              completed |-> progress'[row].completed])
    /\ UNCHANGED <<today, rng, puzzles, scores>>

(***************************************************************************)
(* POST /api/use-hint                                                      *)
(***************************************************************************)
\* lines 421-428: the first word, by length then stored order, not yet found
RECURSIVE FirstUnfound(_, _, _)
FirstUnfound(valid_words, keys, found_words) ==
    IF Len(keys) = 0 THEN None
    ELSE LET bucket == Once(dict_get(valid_words, keys[1]))
             open == {i \in DOMAIN bucket : ~Contains(found_words, bucket[i])}
         IN IF open # {} THEN Some(bucket[First(open)])
            ELSE FirstUnfound(valid_words, Tail(keys), found_words)

\* a dispenser that deducts the hint of a premium user too
HintsAfterDeducting(premium, hints_remaining) == hints_remaining - 1

\* lines 434-435: the hints left after a hint
HintsAfter(premium, hints_remaining) ==
    IF premium THEN hints_remaining ELSE hints_remaining - 1

\* lines 396-401: the user and the hints he has left
use_hint(s, u, puzzle_id) ==
    /\ Free(s)
    /\ users[u].premium =>
          \A i \in ProgressOf(u, puzzle_id) : progress[i].hints_used < MaxHintsUsed
    /\ LET call == [op |-> "use_hint", user_id |-> u, puzzle_id |-> puzzle_id,
                    premium |-> users[u].premium,
                    hints_remaining |-> users[u].hints_remaining]
       IN IF users[u].hints_remaining <= 0 /\ ~users[u].premium
          THEN RespondAt(s, call, [status |-> "HintsExhausted"])
          ELSE /\ pc' = [pc EXCEPT ![s] = "uh_query"]
               /\ req' = [req EXCEPT ![s] = call]
               /\ UNCHANGED resp
    /\ UNCHANGED <<today, rng, users, puzzles, progress, scores>>

\* lines 403-437: the puzzle, the progress, the scan, the changed attributes
uh_query(s) ==
    /\ pc[s] = "uh_query"
    /\ LET r == req[s]
           obj == QueryProgress(r.user_id, r.puzzle_id)
           found_words == Once(json_loads_list(ValueOf(obj.found_words)))
           hint_word == Once(FirstUnfound(puzzles[r.puzzle_id].valid_words,
                                          LengthKeys, found_words))
       IN IF PuzzleById(r.puzzle_id) = {}                     \* line 418
          THEN /\ RespondLater(s, Fault("AttributeError"))
          ELSE IF IsNone(obj.found_words)                     \* line 419
          THEN /\ RespondLater(s, Fault("TypeError"))
          ELSE IF IsNone(hint_word)
          THEN /\ RespondLater(s, [status |-> "NoWordsRemaining"])
          ELSE IF IsNone(obj.hints_used)                      \* line 437
          THEN /\ RespondLater(s, Fault("TypeError"))
          ELSE /\ req' = [req EXCEPT ![s] =
                    [op |-> "use_hint", user_id |-> r.user_id,
                     puzzle_id |-> r.puzzle_id, premium |-> r.premium,
                     hints_remaining |-> r.hints_remaining,
                     hints_after |-> HintsAfter(r.premium, r.hints_remaining),
                     hint_word |-> ValueOf(hint_word),
                     progress |-> [obj EXCEPT
                                     !.hints_used = Some(ValueOf(obj.hints_used) + 1)]]]
               /\ pc' = [pc EXCEPT ![s] = "uh_commit"]
               /\ UNCHANGED resp
    /\ UNCHANGED <<today, rng, users, puzzles, progress, scores>>

\* lines 438-443: the commit, which writes the attributes that changed, and
\* the response (the number of hints left as its text)
uh_commit(s) ==
    /\ pc[s] = "uh_commit"
    /\ LET r == req[s]
       IN IF ProgressConflict(r.progress)
          THEN /\ RespondLater(s, Fault("IntegrityError"))
               /\ UNCHANGED <<users, progress>>
          ELSE /\ progress' = WriteProgress(r.progress, {"hints_used"})
               /\ users' = [users EXCEPT ![r.user_id].hints_remaining =
                              IF r.hints_after # r.hints_remaining
                              THEN r.hints_after ELSE @]
               /\ RespondLater(s, [status |-> "OK", hint |-> r.hint_word,
                              hints_remaining |-> IF r.premium THEN "unlimited"
                                                  ELSE ToString(r.hints_after)])
    /\ UNCHANGED <<today, rng, puzzles, scores>>

(***************************************************************************)
(* POST /api/submit-score                                                  *)
(***************************************************************************)
\* what a client can submit: score, time_taken, words_found
Submissions ==
    {[score |-> 10, time_taken |-> 40, words_found |-> <<"ICE">>],
     [score |-> 20, time_taken |-> 60, words_found |-> <<"ICE", "RICE">>],
     [score |-> 20, time_taken |-> 45, words_found |-> <<"RICE", "ICE">>]}

\* a reconciler that also replaces the row by an equal score
OverwritesOnTie(score, existing_score) == score >= existing_score

\* line 462: a resubmission replaces the row only by a higher score
Overwrites(score, existing_score) == score > existing_score

\* lines 448-477: the query for the row of the pair and what follows from it
submit_score(s, u, puzzle_id, sub) ==
    /\ Free(s)
    /\ LET call == [op |-> "submit_score", user_id |-> u, puzzle_id |-> puzzle_id,
                    score |-> sub.score, time_taken |-> sub.time_taken,
                    words_found |-> sub.words_found,
                    existing |-> IF ScoresOf(u, puzzle_id) = {} THEN 0
                                 ELSE First(ScoresOf(u, puzzle_id)),
                    old_streak |-> 0, streak |-> 0, today |-> 0]
       IN IF call.existing # 0
          THEN IF Overwrites(sub.score, scores[call.existing].score)
               THEN /\ pc' = [pc EXCEPT ![s] = "ss_update"]
                    /\ req' = [req EXCEPT ![s] = call]
                    /\ UNCHANGED resp
               ELSE RespondAt(s, call, [status |-> "OK", success |-> TRUE])
          ELSE /\ Len(scores) < MaxScores
               /\ pc' = [pc EXCEPT ![s] = "ss_user"]
               /\ req' = [req EXCEPT ![s] = call]
               /\ UNCHANGED resp
    /\ UNCHANGED <<today, rng, users, puzzles, progress, scores>>

\* lines 463-466 and 495: the UPDATE of the row found
ss_update(s) ==
    /\ pc[s] = "ss_update"
    /\ scores' = [scores EXCEPT
                    ![req[s].existing].score = req[s].score,
                    ![req[s].existing].time_taken = req[s].time_taken,
                    ![req[s].existing].words_found = json_dumps_list(req[s].words_found)]
    /\ RespondLater(s, [status |-> "OK", success |-> TRUE])
    /\ UNCHANGED <<today, rng, users, puzzles, progress>>

\* a reconciler that counts submissions, not days
StreakPerSubmission(user, d) ==
    IF IsNone(user.last_played) THEN 1
    ELSE IF d - ValueOf(user.last_played) > 1 THEN 1
    ELSE user.streak + 1

\* a reconciler that never resets the streak
StreakNeverReset(user, d) ==
    IF IsNone(user.last_played) THEN 1
    ELSE IF d - ValueOf(user.last_played) >= 1 THEN user.streak + 1
    ELSE user.streak

\* lines 483-490: the streak after a first submission made on day d
Streak(user, d) ==
    IF IsNone(user.last_played) THEN 1
    ELSE IF d - ValueOf(user.last_played) = 1 THEN user.streak + 1
    ELSE IF d - ValueOf(user.last_played) > 1 THEN 1
    ELSE user.streak

\* lines 480-492: the user as the store holds him now, the day, the streak
ss_user(s) ==
    /\ pc[s] = "ss_user"
    /\ req' = [req EXCEPT ![s].old_streak = users[req[s].user_id].streak,
                          ![s].streak = Streak(users[req[s].user_id], today),
                          ![s].today = today]
    /\ pc' = [pc EXCEPT ![s] = "ss_commit"]
    /\ UNCHANGED <<today, rng, users, puzzles, progress, scores, resp>>

\* the Score row of lines 469-476 (hints_used by its column default)
NewScore(r) ==
    [user_id |-> r.user_id, puzzle_id |-> r.puzzle_id, score |-> r.score,
     time_taken |-> r.time_taken, words_found |-> json_dumps_list(r.words_found),
     completed |-> TRUE, hints_used |-> 0]

\* lines 493-495: the commit, which writes the attributes that changed.  Score.puzzle_id is a foreign key (line 67):
\* a store that enforces it refuses the row of a puzzle that does not exist
\* (IntegrityError), a store that does not (SQLite as configured) keeps it
ss_commit(s) ==
    /\ pc[s] = "ss_commit"
    /\ \E enforced \in BOOLEAN :
          IF enforced /\ PuzzleById(req[s].puzzle_id) = {}
          THEN /\ RespondLater(s, Fault("IntegrityError"))
               /\ UNCHANGED <<users, scores>>
          ELSE /\ scores' = Append(scores, NewScore(req[s]))
               /\ users' = [users EXCEPT
                              ![req[s].user_id].streak =
                                  IF req[s].streak # req[s].old_streak
                                  THEN req[s].streak ELSE @,
                              ![req[s].user_id].last_played = Some(req[s].today)]
               /\ RespondLater(s, [status |-> "OK", success |-> TRUE])
    /\ UNCHANGED <<today, rng, puzzles, progress>>

(***************************************************************************)
(* A UserProgress row written to the store by an INSERT that leaves the    *)
(* columns to their defaults (lines 79-83).                                *)
(***************************************************************************)
StoreInsertProgress(u, p) ==
    /\ Len(progress) < MaxProgress
    /\ PuzzleById(p) # {}
    /\ ProgressOf(u, p) = {}
    /\ progress' = Append(progress, InsertedProgress(NewProgress(u, p)))
    /\ UNCHANGED <<today, rng, users, puzzles, scores, pc, req, resp>>

(***************************************************************************)
(* A player who has taken no hint for the puzzle finds, one validate       *)
(* request after the other, every word of the given lengths he has not     *)
(* found yet: the updates of lines 365-378, word after word, condensed     *)
(* into one step.                                                          *)
(***************************************************************************)
RECURSIVE WordsOf(_, _)
WordsOf(valid_words, keys) ==
    IF Len(keys) = 0 THEN <<>>
    ELSE dict_get(valid_words, keys[1]) \o WordsOf(valid_words, Tail(keys))

\* the points of lines 367-378 for the words, one after the other
RECURSIVE PointsOf(_, _)
PointsOf(words, mystery_word) ==
    IF Len(words) = 0 THEN 0
    ELSE Len(words[1]) * 10 + (IF words[1] = mystery_word THEN 100 ELSE 0)
         + PointsOf(Tail(words), mystery_word)

ShorterKeys == <<"3", "4", "5">>

FindWords(u, p, keys) ==
    /\ PuzzleById(p) # {}
    /\ ProgressOf(u, p) # {}
    /\ progress[First(ProgressOf(u, p))].hints_used = 0
    /\ \E found_words \in {json_loads_list(progress[First(ProgressOf(u, p))].found_words)} :
       \E words \in {SelectSeq(WordsOf(puzzles[p].valid_words, keys),
                               LAMBDA w : ~Contains(found_words, w))} :
          LET i == First(ProgressOf(u, p))
              points == PointsOf(words, puzzles[p].mystery_word)
          IN /\ Len(words) > 0
             /\ progress' = [progress EXCEPT
                   ![i].found_words = json_dumps_list(found_words \o words),
                   ![i].current_score = @ + points,
                   ![i].completed = @ \/ Contains(words, puzzles[p].mystery_word)]
             /\ users' = [users EXCEPT ![u].total_score = @ + points]
    /\ UNCHANGED <<today, rng, puzzles, scores, pc, req, resp>>

(***************************************************************************)
(* Observer of the calls of slot 1, which serves one request after the     *)
(* other.  obs.best is per pair the first of the submissions answered with *)
(* success that carried the highest score submitted for the pair so far.   *)
(***************************************************************************)
Seen ==
    LET call == req'[1]
        done == pc'[1] = "done"
    IN obs' =
        [best |->
            IF done /\ call.op = "submit_score" /\ resp'[1].status = "OK"
               /\ (IsNone(obs.best[call.user_id][call.puzzle_id])
                   \/ call.score > ValueOf(obs.best[call.user_id][call.puzzle_id]).score)
            THEN [obs.best EXCEPT ![call.user_id][call.puzzle_id] =
                    Some([score |-> call.score, time_taken |-> call.time_taken,
                          words_found |-> call.words_found])]
            ELSE obs.best]

Unobserved == UNCHANGED obs

\* no request is being served
Quiet == \A s \in Slots : Free(s)

(***************************************************************************)
(* Specifications                                                          *)
(***************************************************************************)
\* the date a client asks the puzzle of: one that is stored, or the day
\* after the last one stored
AskedDates ==
    {puzzles[i].date : i \in DOMAIN puzzles}
        \cup (IF Len(puzzles) < MaxPuzzles THEN {FirstDay + Len(puzzles)} ELSE {})

\* the puzzle a client names: one that is stored, or the id after the last
AskedPuzzles == 1..(Len(puzzles) + 1)

\* the handlers served by slot 1, one request after the other
DailyPuzzleSeq ==
    \/ \E d \in AskedDates : get_daily_puzzle(1, d) /\ Seen
    \/ dp_seed(1) /\ Seen
    \/ dp_choice(1) /\ Seen
    \/ dp_commit(1) /\ Seen

ValidateSeq ==
    \/ \E u \in Users, raw \in RawWords, p \in AskedPuzzles :
          validate_word(1, u, raw, p) /\ Seen
    \/ vw_user(1) /\ Seen
    \/ vw_commit(1) /\ Seen

HintSeq ==
    \/ \E u \in Users, p \in AskedPuzzles : use_hint(1, u, p) /\ Seen
    \/ uh_query(1) /\ Seen
    \/ uh_commit(1) /\ Seen

\* a player takes the puzzles in the order of their ids: his next Score row
\* (UserProgress row) is of the puzzle after those he has such a row for
ScoredBy(u) == {scores[i].puzzle_id : i \in {j \in DOMAIN scores : scores[j].user_id = u}}
StartedBy(u) == {progress[i].puzzle_id : i \in {j \in DOMAIN progress : progress[j].user_id = u}}

SubmitSeq(subs) ==
    \/ \E u \in Users, p \in AskedPuzzles, sub \in subs :
          /\ p <= Cardinality(ScoredBy(u)) + 1
          /\ submit_score(1, u, p, sub)
          /\ Seen
    \/ ss_user(1) /\ Seen
    \/ ss_commit(1) /\ Seen

OverwriteSeq == ss_update(1) /\ Seen

SubscribeSeq == \E u \in Users : subscribe(1, u) /\ Seen

\* between two requests
InsertProgressQuiet ==
    \E u \in Users, p \in AskedPuzzles :
        /\ Quiet
        /\ p <= Cardinality(StartedBy(u)) + 1
        /\ StoreInsertProgress(u, p)
        /\ Unobserved

FindWordsQuiet(lengths) ==
    \E u \in Users, p \in AskedPuzzles, keys \in lengths :
        Quiet /\ FindWords(u, p, keys) /\ Unobserved

Midnight == Quiet /\ NextDay /\ Unobserved

\* Playing: the daily puzzle, the words, the hints and the subscription, one
\* request at a time, in a store where UserProgress rows can exist.
Next ==
    \/ DailyPuzzleSeq
    \/ ValidateSeq
    \/ HintSeq
    \/ SubscribeSeq
    \/ InsertProgressQuiet
    \/ FindWordsQuiet({ShorterKeys, LengthKeys})

Spec == Init /\ [][Next]_vars

\* Words: the daily puzzle and the validate requests.
NextWords ==
    \/ DailyPuzzleSeq
    \/ ValidateSeq
    \/ InsertProgressQuiet

SpecWords == Init /\ [][NextWords]_vars

\* Hints: the daily puzzle, the hint requests and the subscription.
NextHint ==
    \/ DailyPuzzleSeq
    \/ HintSeq
    \/ SubscribeSeq
    \/ InsertProgressQuiet
    \/ FindWordsQuiet({LengthKeys})

SpecHint == Init /\ [][NextHint]_vars

\* Scoring: the daily puzzle and the score submissions of one day, one
\* request at a time.
NextScore ==
    \/ DailyPuzzleSeq
    \/ SubmitSeq(Submissions)
    \/ OverwriteSeq

SpecScore == Init /\ [][NextScore]_vars

\* Streaks: the daily puzzle and the score submissions over the days, one
\* request at a time.  Every submission carries the same score, so that none
\* overwrites a row: the streak belongs to the submissions that create one.
StreakSubmissions == {sub \in Submissions : sub.score = 10}

NextStreak ==
    \/ DailyPuzzleSeq
    \/ SubmitSeq(StreakSubmissions)
    \/ Midnight

SpecStreak == Init /\ [][NextStreak]_vars

\* the handlers served by any slot, requests overlapping
DailyPuzzleAny(dates) ==
    \/ \E s \in Slots, d \in dates : get_daily_puzzle(s, d) /\ Unobserved
    \/ \E s \in Slots : dp_seed(s) /\ Unobserved
    \/ \E s \in Slots : dp_choice(s) /\ Unobserved
    \/ \E s \in Slots : dp_commit(s) /\ Unobserved

ValidateAny ==
    \/ \E s \in Slots, u \in Users, raw \in RawWords, p \in AskedPuzzles :
          validate_word(s, u, raw, p) /\ Unobserved
    \/ \E s \in Slots : vw_user(s) /\ Unobserved
    \/ \E s \in Slots : vw_commit(s) /\ Unobserved

InsertProgress ==
    \E u \in Users, p \in AskedPuzzles :
        /\ p <= Cardinality(StartedBy(u)) + 1
        /\ StoreInsertProgress(u, p)
        /\ Unobserved

\* Concurrent requests for the daily puzzle.
NextRacePuzzle == DailyPuzzleAny(PuzzleDates)

SpecRacePuzzle == Init /\ [][NextRacePuzzle]_vars

\* Concurrent validate requests for the puzzle of the first day.
NextRaceValidate ==
    \/ DailyPuzzleAny({FirstDay})
    \/ InsertProgress
    \/ ValidateAny

SpecRaceValidate == Init /\ [][NextRaceValidate]_vars

\* A player's days: the daily puzzle, the words, the hints and the score
\* submissions, one request at a time, of a player who plays every day and
\* submits each result once he has it.
PlayWords == {raw \in RawWords : Len(raw) > 3}
PlaySubmissions == {sub \in Submissions : sub.words_found[1] = "ICE"}

ValidatePlaySeq ==
    \/ \E u \in Users, raw \in PlayWords, p \in AskedPuzzles :
          validate_word(1, u, raw, p) /\ Seen
    \/ vw_user(1) /\ Seen
    \/ vw_commit(1) /\ Seen

MidnightAfterPlay ==
    /\ \E u \in Users : users[u].last_played = Some(today)
    /\ Midnight

NextPlay ==
    \/ DailyPuzzleSeq
    \/ ValidatePlaySeq
    \/ HintSeq
    \/ SubmitSeq(PlaySubmissions)
    \/ OverwriteSeq
    \/ InsertProgressQuiet
    \/ MidnightAfterPlay

SpecPlay == Init /\ [][NextPlay]_vars

\* Concurrent score submissions over the days, all with the same score, so
\* that none overwrites a row.
SubmitAny(subs) ==
    \/ \E s \in Slots, u \in Users, p \in AskedPuzzles, sub \in subs :
          /\ p <= Cardinality(ScoredBy(u)) + 1
          /\ submit_score(s, u, p, sub)
          /\ Unobserved
    \/ \E s \in Slots : ss_user(s) /\ Unobserved
    \/ \E s \in Slots : ss_commit(s) /\ Unobserved

NextRaceSubmit ==
    \/ DailyPuzzleAny({FirstDay})
    \/ SubmitAny(StreakSubmissions)
    \/ Midnight

SpecRaceSubmit == Init /\ [][NextRaceSubmit]_vars

\* Concurrent hint requests for the puzzle of the first day.
HintAny ==
    \/ \E s \in Slots, u \in Users, p \in AskedPuzzles : use_hint(s, u, p) /\ Unobserved
    \/ \E s \in Slots : uh_query(s) /\ Unobserved
    \/ \E s \in Slots : uh_commit(s) /\ Unobserved

NextRaceHint ==
    \/ DailyPuzzleAny({FirstDay})
    \/ InsertProgress
    \/ HintAny

SpecRaceHint == Init /\ [][NextRaceHint]_vars

(***************************************************************************)
(* Properties.  The reference definitions below restate what a response    *)
(* and the store should be from the templates, not from the handlers.      *)
(***************************************************************************)
\* slot 1 finishes a call of op at this step
Ends(op) ==
    /\ pc'[1] = "done"
    /\ req'[1].op = op
    /\ <<pc[1], req[1], resp[1]>> # <<pc'[1], req'[1], resp'[1]>>

\* the classification a response of validate carries
Classification(r) ==
    IF r.status # "OK" THEN r.status
    ELSE IF ~r.valid THEN "INVALID"
    ELSE IF r.duplicate THEN "DUPLICATE"
    ELSE IF r.is_mystery THEN "MYSTERY"
    ELSE "VALID"

\* the rows of a pair in a table, its found words and its running score
\* (no words and 0 without a row)
RowsIn(table, u, p) ==
    {i \in DOMAIN table : table[i].user_id = u /\ table[i].puzzle_id = p}

FoundIn(table, u, p) ==
    IF RowsIn(table, u, p) = {} THEN <<>>
    ELSE json_loads_list(table[First(RowsIn(table, u, p))].found_words)

ScoreIn(table, u, p) ==
    IF RowsIn(table, u, p) = {} THEN 0
    ELSE table[First(RowsIn(table, u, p))].current_score

HintsUsedIn(table, u, p) ==
    IF RowsIn(table, u, p) = {} THEN 0
    ELSE table[First(RowsIn(table, u, p))].hints_used

\* the word in capitals
UpperCase == [w \in RawWords |->
                 CASE w = "it" -> "IT" [] w = "rice" -> "RICE" [] OTHER -> w]

\* the template of a stored puzzle, its words in the order of a scan
TemplateOf(p) ==
    PUZZLE_TEMPLATES[CHOOSE t \in DOMAIN PUZZLE_TEMPLATES :
                        PUZZLE_TEMPLATES[t].mystery = puzzles[p].mystery_word]

IsListed(p, w) ==
    \E k \in DOMAIN TemplateOf(p).valid_words :
        k = ToString(Len(w)) /\ w \in Range(TemplateOf(p).valid_words[k])

ScanOrder(p) ==
    TemplateOf(p).valid_words["3"] \o TemplateOf(p).valid_words["4"]
        \o TemplateOf(p).valid_words["5"] \o TemplateOf(p).valid_words["6"]

ExpectedHint(p, found) ==
    LET open == {i \in DOMAIN ScanOrder(p) : ScanOrder(p)[i] \notin Range(found)}
    IN IF open = {} THEN None ELSE Some(ScanOrder(p)[First(open)])

\* the points of a word, of a list of words
Points(p, w) == Len(w) * 10 + (IF w = puzzles[p].mystery_word THEN 100 ELSE 0)

RECURSIVE SumPoints(_, _)
SumPoints(p, words) ==
    IF Len(words) = 0 THEN 0
    ELSE Points(p, words[1]) + SumPoints(p, Tail(words))

\* the running scores of all the rows of a user
RECURSIVE SumScores(_, _)
SumScores(table, u) ==
    IF Len(table) = 0 THEN 0
    ELSE (IF table[1].user_id = u THEN table[1].current_score ELSE 0)
         + SumScores(Tail(table), u)

\* a table changed at most in row i
SameBut(before, after, i) ==
    /\ Len(after) = Len(before)
    /\ \A j \in DOMAIN before : j # i => after[j] = before[j]

(***************************************************************************)
(* C1: a valid word that the user has not found yet is answered VALID (or  *)
(* MYSTERY) and adds its points once to the running score of the pair and  *)
(* to the total score of the user; the same word validated again right     *)
(* after is answered DUPLICATE and changes nothing.                        *)
(***************************************************************************)
C1_ValidateTwice ==
    [][LET c == req'[1]
           u == c.user_id
           p == c.puzzle_id
           w == UpperCase[c.raw]
       IN /\ (/\ Ends("validate_word")
              /\ PuzzleById(p) # {}
              /\ IsListed(p, w)
              /\ ~Contains(FoundIn(progress, u, p), w))
             => /\ Classification(resp'[1])
                      = (IF w = puzzles[p].mystery_word THEN "MYSTERY" ELSE "VALID")
                /\ ScoreIn(progress', u, p) = ScoreIn(progress, u, p) + Points(p, w)
                /\ users'[u].total_score = users[u].total_score + Points(p, w)
          /\ (/\ pc[1] = "done"
              /\ req[1].op = "validate_word"
              /\ Classification(resp[1]) \in {"VALID", "MYSTERY"}
              /\ <<pc[1], req[1], resp[1]>> # <<pc'[1], req'[1], resp'[1]>>
              /\ c.op = "validate_word"
              /\ <<u, p, c.raw>> = <<req[1].user_id, req[1].puzzle_id, req[1].raw>>)
             => /\ pc'[1] = "done"
                /\ Classification(resp'[1]) = "DUPLICATE"
                /\ progress' = progress
                /\ users' = users]_vars

(***************************************************************************)
(* C2: two requests that both validated a word of the same pair, the words *)
(* distinct, leave both words in the found set, the running score at the   *)
(* points of the words found and the total score at the sum of the running *)
(* scores of the user.                                                     *)
(***************************************************************************)
C2_NoLostUpdate ==
    \A s, t \in Slots :
        (/\ s # t
         /\ pc[s] = "done" /\ pc[t] = "done"
         /\ req[s].op = "validate_word" /\ req[t].op = "validate_word"
         /\ req[s].user_id = req[t].user_id
         /\ req[s].puzzle_id = req[t].puzzle_id
         /\ UpperCase[req[s].raw] # UpperCase[req[t].raw]
         /\ Classification(resp[s]) \in {"VALID", "MYSTERY"}
         /\ Classification(resp[t]) \in {"VALID", "MYSTERY"})
        => LET u == req[s].user_id
               p == req[s].puzzle_id
               found == FoundIn(progress, u, p)
           IN /\ Contains(found, UpperCase[req[s].raw])
              /\ Contains(found, UpperCase[req[t].raw])
              /\ ScoreIn(progress, u, p) = SumPoints(p, found)
              /\ users[u].total_score = SumScores(progress, u)

(***************************************************************************)
(* C3: a pair has no Score row before its first accepted submission and    *)
(* exactly one after it, which carries the highest score submitted and the *)
(* time and the words of the submission that first carried it; a           *)
(* submission whose score is not higher than the stored one is answered    *)
(* with success and changes nothing.                                       *)
(***************************************************************************)
C3_BestScoreKept ==
    [][/\ \A u \in Users, p \in PuzzleIds :
             IF IsNone(obs'.best[u][p]) THEN RowsIn(scores', u, p) = {}
             ELSE \E i \in DOMAIN scores' :
                     /\ RowsIn(scores', u, p) = {i}
                     /\ scores'[i].score = ValueOf(obs'.best[u][p]).score
                     /\ scores'[i].time_taken = ValueOf(obs'.best[u][p]).time_taken
                     /\ json_loads_list(scores'[i].words_found)
                           = ValueOf(obs'.best[u][p]).words_found
       /\ Ends("submit_score")
          => \A i \in RowsIn(scores, req'[1].user_id, req'[1].puzzle_id) :
                req'[1].score <= scores[i].score
                => /\ resp'[1] = [status |-> "OK", success |-> TRUE]
                   /\ scores' = scores
                   /\ users' = users]_vars

\* an equal score was submitted after the stored one and the row kept its time
C3_TieKeepsFirst ==
    /\ pc[1] = "done"
    /\ req[1].op = "submit_score"
    /\ resp[1].status = "OK"
    /\ \E i \in RowsIn(scores, req[1].user_id, req[1].puzzle_id) :
          /\ scores[i].score = req[1].score
          /\ scores[i].time_taken # req[1].time_taken

(***************************************************************************)
(* C4: a submission that creates a Score row sets the streak of the user   *)
(* to 1 if he has no last-played day, adds 1 to it if that day is          *)
(* yesterday, resets it to 1 if that day is further back, leaves it as it  *)
(* is if that day is today, and sets the last-played day to today.         *)
(***************************************************************************)
C4_StreakLaw ==
    [][(Ends("submit_score") /\ Len(scores') > Len(scores))
       => LET u == req'[1].user_id
              last == users[u].last_played
          IN /\ users'[u].streak =
                   (IF IsNone(last) THEN 1
                    ELSE IF today - ValueOf(last) = 1 THEN users[u].streak + 1
                    ELSE IF today - ValueOf(last) > 1 THEN 1
                    ELSE users[u].streak)
             /\ users'[u].last_played = Some(today)]_vars

\* first submissions on the first three days: the streak is 3
C4_ThreeDaysRunning ==
    /\ today = FirstDay + 2
    /\ pc[1] = "done"
    /\ req[1].op = "submit_score"
    /\ \E u \in Users :
          /\ users[u].streak = 3
          /\ users[u].last_played = Some(today)

(***************************************************************************)
(* C5: a hint request of a user who has hints left or is premium, for a    *)
(* stored puzzle, returns the first word in the order of the scan (lengths *)
(* 3 to 6, each in its stored order) that is not in the found set of the   *)
(* pair, the mystery word included, and fails with NoWordsRemaining when   *)
(* there is no such word.                                                  *)
(***************************************************************************)
C5_HintSelection ==
    [][LET u == req'[1].user_id
           p == req'[1].puzzle_id
           hint == ExpectedHint(p, FoundIn(progress, u, p))
       IN (/\ Ends("use_hint")
           /\ PuzzleById(p) # {}
           /\ users[u].hints_remaining > 0 \/ users[u].premium)
          => IF IsNone(hint) THEN resp'[1].status = "NoWordsRemaining"
             ELSE /\ resp'[1].status = "OK"
                  /\ resp'[1].hint = ValueOf(hint)]_vars

(***************************************************************************)
(* C6: a hint request fails with HintsExhausted exactly when the user has  *)
(* no hints left and is not premium; a successful one takes one hint from  *)
(* a user who is not premium and none from one who is, adds 1 to the       *)
(* hints_used of the pair, and changes nothing else; one that fails with   *)
(* HintsExhausted or NoWordsRemaining changes nothing.                     *)
(***************************************************************************)
C6_HintEffects ==
    [][Ends("use_hint")
       => LET u == req'[1].user_id
              p == req'[1].puzzle_id
              status == resp'[1].status
          IN /\ (status = "HintsExhausted")
                   <=> (users[u].hints_remaining <= 0 /\ ~users[u].premium)
             /\ status = "OK"
                => /\ users' = [users EXCEPT ![u].hints_remaining =
                                   IF users[u].premium THEN @ ELSE @ - 1]
                   /\ HintsUsedIn(progress', u, p) = HintsUsedIn(progress, u, p) + 1
                   /\ FoundIn(progress', u, p) = FoundIn(progress, u, p)
                   /\ ScoreIn(progress', u, p) = ScoreIn(progress, u, p)
                   /\ \A i \in RowsIn(progress, u, p) :
                         /\ SameBut(progress, progress', i)
                         /\ progress'[i].completed = progress[i].completed
                   /\ <<puzzles', scores'>> = <<puzzles, scores>>
             /\ status \in {"HintsExhausted", "NoWordsRemaining"}
                => <<users', progress', puzzles', scores'>>
                      = <<users, progress, puzzles, scores>>]_vars

\* a premium user without hints left was given a hint
C6_PremiumHint ==
    /\ pc[1] = "done"
    /\ req[1].op = "use_hint"
    /\ resp[1].status = "OK"
    /\ users[req[1].user_id].premium
    /\ users[req[1].user_id].hints_remaining = 0

(***************************************************************************)
(* C7: validate with a valid word for a pair without a UserProgress row    *)
(* succeeds and leaves exactly one row of the pair, with the word as its   *)
(* found set and the points of the word as its running score; the first    *)
(* hint of such a pair succeeds and leaves exactly one row, with no word   *)
(* found, running score 0 and hints_used 1.                                *)
(***************************************************************************)
C7_FirstUseCreatesProgress ==
    [][LET u == req'[1].user_id
           p == req'[1].puzzle_id
       IN /\ (/\ Ends("validate_word")
              /\ PuzzleById(p) # {}
              /\ IsListed(p, UpperCase[req'[1].raw])
              /\ RowsIn(progress, u, p) = {})
             => /\ Classification(resp'[1]) \in {"VALID", "MYSTERY"}
                /\ Cardinality(RowsIn(progress', u, p)) = 1
                /\ FoundIn(progress', u, p) = <<UpperCase[req'[1].raw]>>
                /\ ScoreIn(progress', u, p) = Points(p, UpperCase[req'[1].raw])
          /\ (/\ Ends("use_hint")
              /\ PuzzleById(p) # {}
              /\ users[u].hints_remaining > 0 \/ users[u].premium
              /\ RowsIn(progress, u, p) = {})
             => /\ resp'[1].status = "OK"
                /\ Cardinality(RowsIn(progress', u, p)) = 1
                /\ FoundIn(progress', u, p) = <<>>
                /\ ScoreIn(progress', u, p) = 0
                /\ HintsUsedIn(progress', u, p) = 1]_vars

(***************************************************************************)
(* C8: every request for the daily puzzle of a date is answered with the   *)
(* one Puzzle row of that date, never with a failure.                      *)
(***************************************************************************)
C8_BothRequestsSucceed ==
    \A s \in Slots :
        (pc[s] = "done" /\ req[s].op = "get_daily_puzzle")
        => /\ resp[s].status = "OK"
           /\ PuzzleByDate(req[s].puzzle_date) = {resp[s].id}

\* the puzzles generated so far: those stored and those about to be stored
Generated ==
    Range(puzzles) \cup {req[s].puzzle : s \in {t \in Slots : pc[t] = "dp_commit"}}

(***************************************************************************)
(* C9: the puzzles generated for one date, stored or about to be stored,   *)
(* carry the same letters, mystery word, theme and case number.            *)
(***************************************************************************)
C9_SameDateSameData ==
    \A a, b \in Generated :
        a.date = b.date
        => /\ a.letters = b.letters
           /\ a.mystery_word = b.mystery_word
           /\ a.theme = b.theme
           /\ a.case_number = b.case_number

(***************************************************************************)
(* C10: validate, for a stored puzzle and a word that is not empty, takes  *)
(* the word in capitals and answers INVALID exactly when the word is not   *)
(* listed under its length, otherwise DUPLICATE if the word is in the      *)
(* found set of the pair, otherwise MYSTERY if it is the mystery word,     *)
(* otherwise VALID.                                                        *)
(***************************************************************************)
C10_Classification ==
    [][(/\ Ends("validate_word")
        /\ req'[1].raw # ""
        /\ PuzzleById(req'[1].puzzle_id) # {})
       => LET u == req'[1].user_id
              p == req'[1].puzzle_id
              w == UpperCase[req'[1].raw]
              class == Classification(resp'[1])
          IN class = (IF ~IsListed(p, w) THEN "INVALID"
                      ELSE IF Contains(FoundIn(progress, u, p), w) THEN "DUPLICATE"
                      ELSE IF w = puzzles[p].mystery_word THEN "MYSTERY"
                      ELSE "VALID")]_vars

\* a word sent in small letters was answered VALID
C10_SmallLettersValid ==
    /\ pc[1] = "done"
    /\ req[1].op = "validate_word"
    /\ req[1].raw = "rice"
    /\ Classification(resp[1]) = "VALID"

(***************************************************************************)
(* C11: a word newly found is reported with 10 points per letter, and with *)
(* 100 more if it is the mystery word, which also sets completed; the      *)
(* points reported are the points added to the running score of the pair   *)
(* and to the total score of the user.                                     *)
(***************************************************************************)
C11_PointsReported ==
    [][(/\ Ends("validate_word")
        /\ Classification(resp'[1]) \in {"VALID", "MYSTERY"})
       => LET u == req'[1].user_id
              p == req'[1].puzzle_id
              w == UpperCase[req'[1].raw]
          IN /\ resp'[1].points = Points(p, w)
             /\ ScoreIn(progress', u, p) = ScoreIn(progress, u, p) + resp'[1].points
             /\ users'[u].total_score = users[u].total_score + resp'[1].points
             /\ w = puzzles[p].mystery_word
                => /\ resp'[1].completed
                   /\ \A i \in RowsIn(progress', u, p) : progress'[i].completed]_vars

\* a word that is not the mystery word was reported with its 10 points per letter
C11_PlainWordPoints ==
    /\ pc[1] = "done"
    /\ req[1].op = "validate_word"
    /\ Classification(resp[1]) = "VALID"
    /\ resp[1].points = 40
    /\ resp[1].current_score = 40

(***************************************************************************)
(* C12: a validate call answered INVALID or DUPLICATE, which is the answer *)
(* for a word that is not listed or is in the found set of the pair,       *)
(* changes nothing in the store: the UserProgress rows and their number,   *)
(* the users, the puzzles and the Score rows are as they were.             *)
(***************************************************************************)
C12_NoEffectWithoutNewWord ==
    [][(/\ Ends("validate_word")
        /\ req'[1].raw # ""
        /\ PuzzleById(req'[1].puzzle_id) # {}
        /\ \/ Classification(resp'[1]) \in {"INVALID", "DUPLICATE"}
           \/ ~IsListed(req'[1].puzzle_id, UpperCase[req'[1].raw])
           \/ Contains(FoundIn(progress, req'[1].user_id, req'[1].puzzle_id),
                       UpperCase[req'[1].raw]))
       => /\ Classification(resp'[1]) \in {"INVALID", "DUPLICATE"}
          /\ <<progress', users', puzzles', scores'>>
                = <<progress, users, puzzles, scores>>]_vars

\* a word of the found set was sent again and answered DUPLICATE
C12_DuplicateAnswered ==
    /\ pc[1] = "done"
    /\ req[1].op = "validate_word"
    /\ Classification(resp[1]) = "DUPLICATE"
    /\ Contains(FoundIn(progress, req[1].user_id, req[1].puzzle_id), req[1].word)

(***************************************************************************)
(* C13: in every state a UserProgress row is completed exactly when the    *)
(* mystery word of its puzzle is in its found set, and a row that is       *)
(* completed stays completed.                                              *)
(***************************************************************************)
C13_CompletedIffMysteryFound ==
    [][/\ \A i \in DOMAIN progress' :
             progress'[i].completed
                <=> Contains(json_loads_list(progress'[i].found_words),
                             puzzles'[progress'[i].puzzle_id].mystery_word)
       /\ \A i \in DOMAIN progress : progress[i].completed => progress'[i].completed]_vars

(***************************************************************************)
(* C14: the streak and the last-played day of a user change only when a    *)
(* submission of that user creates the Score row of a pair that had none:  *)
(* validate, hint and a submission for a pair that has a Score row,        *)
(* overwriting or not, leave both as they are.                             *)
(***************************************************************************)
C14_StreakOnlyWithNewScore ==
    [][\A u \in Users :
          (\/ users'[u].streak # users[u].streak
           \/ users'[u].last_played # users[u].last_played)
          => /\ Ends("submit_score")
             /\ req'[1].user_id = u
             /\ RowsIn(scores, u, req'[1].puzzle_id) = {}
             /\ Cardinality(RowsIn(scores', u, req'[1].puzzle_id)) = 1]_vars

\* the last request is a submission for a pair that had its Score row
\* before the user got the row of the next puzzle: it was answered with
\* success, and the streak and the last-played day are those of the first day
C14_ResubmissionKeepsStreak ==
    /\ pc[1] = "done"
    /\ req[1].op = "submit_score"
    /\ resp[1].status = "OK"
    /\ today > FirstDay
    /\ users[req[1].user_id].last_played = Some(FirstDay)
    /\ users[req[1].user_id].streak = 1
    /\ RowsIn(scores, req[1].user_id, req[1].puzzle_id) # {}
    /\ RowsIn(scores, req[1].user_id, req[1].puzzle_id + 1) # {}
    /\ \A i \in RowsIn(scores, req[1].user_id, req[1].puzzle_id) :
          scores[i].score > 10

(***************************************************************************)
(* C15: a submission made on the last-played day of the user, for a pair   *)
(* with or without a Score row, leaves the streak as it is; the streak     *)
(* grows only on a day that was not the last-played day and that becomes   *)
(* it, so at most once a day.                                              *)
(***************************************************************************)
C15_OnceADay ==
    [][\A u \in Users :
          /\ (/\ Ends("submit_score")
              /\ req'[1].user_id = u
              /\ users[u].last_played = Some(today))
             => users'[u].streak = users[u].streak
          /\ users'[u].streak > users[u].streak
             => /\ users[u].last_played # Some(today)
                /\ users'[u].last_played = Some(today)
                /\ today' = today]_vars

\* two pairs of a user got their Score rows on the first day: the streak is 1
C15_TwoPuzzlesOneDay ==
    /\ today = FirstDay
    /\ pc[1] = "done"
    /\ req[1].op = "submit_score"
    /\ resp[1].status = "OK"
    /\ Cardinality(ScoredBy(req[1].user_id)) = 2
    /\ users[req[1].user_id].streak = 1
    /\ users[req[1].user_id].last_played = Some(today)

(***************************************************************************)
(* C16: however the submissions overlap, a pair has at most one Score row, *)
(* and the streak of a user is at most the number of days there have been  *)
(* (no day counts twice).                                                  *)
(***************************************************************************)
C16_OneScoreRowPerPair ==
    \A u \in Users :
        /\ \A p \in PuzzleIds : Cardinality(RowsIn(scores, u, p)) <= 1
        /\ users[u].streak <= today - FirstDay + 1

(***************************************************************************)
(* C17: validate (with a word), hint (of a user who can take one) and      *)
(* submitScore, called with the id of a puzzle that is not stored, are     *)
(* answered NotFound and change nothing in the store.                      *)
(***************************************************************************)
C17_AbsentPuzzleNotFound ==
    [][\A op \in {"validate_word", "use_hint", "submit_score"} :
          (/\ Ends(op)
           /\ PuzzleById(req'[1].puzzle_id) = {}
           /\ op = "validate_word" => req'[1].raw # ""
           /\ op = "use_hint"
              => \/ users[req'[1].user_id].hints_remaining > 0
                 \/ users[req'[1].user_id].premium)
          => /\ resp'[1].status = "NotFound"
             /\ <<users', progress', scores', puzzles'>>
                   = <<users, progress, scores, puzzles>>]_vars

(***************************************************************************)
(* C18: the puzzle generated for a date lists its mystery word under the   *)
(* length of that word, and so does every Puzzle row, stored or about to   *)
(* be stored, in the text of its valid_words column.                       *)
(***************************************************************************)
C18_MysteryWordListed ==
    /\ \A d \in DOMAIN RandomDraws :
          generate_daily_puzzle(d).mystery_word
             \in Range(generate_daily_puzzle(d).valid_words[
                          ToString(Len(generate_daily_puzzle(d).mystery_word))])
    /\ \A g \in Generated :
          Contains(dict_get(g.valid_words, ToString(Len(g.mystery_word))),
                   g.mystery_word)

\* the puzzles of two templates are stored and the mystery word of one was
\* validated
C18_PuzzleCompleted ==
    /\ \E i, j \in DOMAIN puzzles : puzzles[i].mystery_word # puzzles[j].mystery_word
    /\ pc[1] = "done"
    /\ req[1].op = "validate_word"
    /\ Classification(resp[1]) = "MYSTERY"
    /\ req[1].word = puzzles[req[1].puzzle_id].mystery_word

(***************************************************************************)
(* C19: however the hint requests overlap, a user who is not premium never *)
(* has fewer than no hints left, and the hint requests answered with a     *)
(* hint, those whose answers stand at a time, are no more than the hints   *)
(* taken from the user since registration.                                 *)
(***************************************************************************)
C19_HintsNotLost ==
    \A u \in Users :
        ~users[u].premium
        => /\ users[u].hints_remaining >= 0
           /\ Cardinality({s \in Slots : /\ pc[s] = "done"
                                         /\ req[s].op = "use_hint"
                                         /\ req[s].user_id = u
                                         /\ resp[s].status = "OK"})
                 <= NewUser.hints_remaining - users[u].hints_remaining

(***************************************************************************)
(* C20: with one request at a time, the running score of every             *)
(* UserProgress row is the sum of 10 points per letter over its found      *)
(* words, and 100 more if the mystery word is among them, and the total    *)
(* score of every user is the sum of the running scores of his rows.       *)
(***************************************************************************)
C20_ScoreAccounting ==
    /\ \A i \in DOMAIN progress :
          progress[i].current_score
             = SumPoints(progress[i].puzzle_id, json_loads_list(progress[i].found_words))
    /\ \A u \in Users : users[u].total_score = SumScores(progress, u)

\* a user who took a hint, found a word and then the mystery word, and has
\* submitted a score: 40 + 160 points
C20_BothWordsFound ==
    /\ pc[1] = "done"
    /\ req[1].op = "validate_word"
    /\ Classification(resp[1]) = "MYSTERY"
    /\ FoundIn(progress, req[1].user_id, req[1].puzzle_id) = <<"RICE", "CRIMES">>
    /\ HintsUsedIn(progress, req[1].user_id, req[1].puzzle_id) > 0
    /\ RowsIn(scores, req[1].user_id, req[1].puzzle_id) # {}
    /\ users[req[1].user_id].total_score = 200

(***************************************************************************)
(* C21: in every state the found set of a UserProgress row holds only      *)
(* words that its puzzle lists under their length, in capitals as listed,  *)
(* and none of them twice; and no step takes a word out of a found set.    *)
(***************************************************************************)
C21_FoundSetGrows ==
    [][/\ \A i \in DOMAIN progress' :
             LET found == json_loads_list(progress'[i].found_words)
             IN /\ \A k \in DOMAIN found : IsListed(progress'[i].puzzle_id, found[k])
                /\ \A j, k \in DOMAIN found : j # k => found[j] # found[k]
       /\ \A i \in DOMAIN progress :
             Range(json_loads_list(progress[i].found_words))
                \subseteq Range(json_loads_list(progress'[i].found_words))]_vars

====
